---- MODULE Spec2Model ----
(***************************************************************************)
(* Model of xml_mod/xml_modifier.py: the rule-driven XML modifier.         *)
(*                                                                         *)
(* A run reads the configuration, creates the output directory, and for    *)
(* every *.xml file of the input directory opens a log, parses the file,   *)
(* applies the mappings in order (one XPath evaluation per mapping, one    *)
(* decision per returned node), optionally validates the tree against the  *)
(* schema, and saves the tree when it was modified.                        *)
(*                                                                         *)
(* A document is <a> with a sequence of <b> children, each with a text     *)
(* (possibly given as a CDATA section) and possibly an attribute k.        *)
(* A file name is a sequence of name segments, <<"a", ".xml">>.            *)
(* An exception nothing catches ends the run: pc = "crashed".              *)
(***************************************************************************)
EXTENDS Naturals, Sequences, FiniteSets

VARIABLES
    config,         \* the dict load_config returned
    in_dir,         \* input directory: file name -> content
    out_dir_exists, \* whether output_directory exists
    out_xml,        \* output directory: file name -> XML content written, or NoFile
    logs,           \* output directory: log name -> lines written, NoLog without the file
    pc,             \* position of the run
    exc,            \* the exception that ended the run, or "none"
    todo,           \* names os.listdir yielded that the loop has not reached yet
    filename,       \* the loop variable of process_xml_files
    tree,           \* the tree parse_and_modify_xml works on
    modified,       \* its local flag
    mapping_idx,    \* index of the mapping the for loop is at
    nodes,          \* the list root.xpath returned for that mapping
    node_idx,       \* index of the node the inner loop is at
    at_mapping,     \* the mapping last entered: its index, the tree and the log length then
    written,        \* files tree.write saved in this run
    opened,         \* log names opened in this run (a bag: name -> count)
    validated,      \* calls of validate_xml_with_schema in this run, by file
    run,            \* "first" or "second" run of the script
    workers,        \* the tasks of a run with one concurrent task for each file
    scan            \* the locals of main of output_scanned_directories_data.py

vars == <<config, in_dir, out_dir_exists, out_xml, logs, pc, exc, todo, filename,
          tree, modified, mapping_idx, nodes, node_idx, at_mapping, written,
          opened, validated, run, workers, scan>>

-----------------------------------------------------------------------------
(* Bounds *)

MaxElems == 2
MaxMappings == 2

-----------------------------------------------------------------------------
(* Values, documents, files *)

Values == {"X", "Y", "Z"}

Absent == "absent"

\* the attribute k of an element that has none
NoAttr == "no attribute"

\* <b>text</b>: an element without attributes whose text is no CDATA section
Elem(text) == [text |-> text, attr |-> NoAttr, cdata |-> FALSE]

Element == {Elem(v) : v \in Values}

\* a well-formed document: <a> and its <b> children
Doc(b) == [kind |-> "xml", b |-> b]

Docs == {Doc(b) : b \in UNION {[1..n -> Element] : n \in 0..MaxElems}}

\* what else a file, or the variable tree, can hold
Other(kind) == [kind |-> kind, b |-> << >>]

Unparseable == Other("unparseable")
NotXml == Other("not xml")
NoFile == Other("no file")
NoTree == Other("no tree")
NoRoot == Other("no root")

XmlA == <<"a", ".xml">>
XmlB == <<"b", ".xml">>
TxtC == <<"c", ".txt">>
\* a.xml.xml and a.log.xml: names with ".xml" or ".log" before the extension
XmlXmlA == <<"a", ".xml", ".xml">>
LogXmlA == <<"a", ".log", ".xml">>

FileNames == {XmlA, XmlB, TxtC, XmlXmlA, LogXmlA}

\* filename.endswith('.xml')
EndsWithXml(name) == Len(name) > 0 /\ name[Len(name)] = ".xml"

\* filename.replace('.xml', '.log'): every occurrence is replaced
LogName(name) == [i \in 1..Len(name) |-> IF name[i] = ".xml" THEN ".log" ELSE name[i]]

XmlNames == {f \in FileNames : EndsWithXml(f)}

LogNames == {LogName(f) : f \in XmlNames}

-----------------------------------------------------------------------------
(* Configuration *)

Paths == {"/a/b", "/a/b/text()", "/a/c"}

\* one entry of config['mappings']; new_value may be left out
Mappings ==
    {m \in [xpath : Paths, current_value : {"X"}, new_value : {"Y", Absent}] :
        m.xpath = "/a/c" => m.new_value = "Y"}

MappingLists == UNION {[1..n -> Mappings] : n \in 0..MaxMappings}

\* mapping.get('new_value', current_value)
NewValue(mapping) ==
    IF mapping.new_value = Absent THEN mapping.current_value ELSE mapping.new_value

RequiredKeys == {"input_directory", "output_directory", "mappings"}
AllKeys == RequiredKeys \cup {"schema_path"}

\* the XSD at schema_path restricts the text of <b> to an enumeration
Schemas == {{"X", "Z"}, {"X", "Y"}}

\* the dict json.load returns: its keys, the mappings list, schema_validation.enabled,
\* and the enumeration of the schema that schema_path names. A dict without the key
\* mappings has no list; schema_path and the schema are only read when validation is
\* enabled, so a dict with validation disabled is taken with the key and one schema.
\* These dicts have no key handle_cdata: config.get('handle_cdata', False).
\* same_dir tells whether input_directory and output_directory name one directory.
Configs ==
    {c \in [keys : {AllKeys} \cup {AllKeys \ {k} : k \in AllKeys},
            mappings : MappingLists,
            schema_enabled : BOOLEAN,
            schema : Schemas,
            handle_cdata : {FALSE},
            same_dir : {FALSE}] :
        /\ "mappings" \notin c.keys => c.mappings = << >>
        /\ "schema_path" \notin c.keys => c.schema_enabled
        /\ (~c.schema_enabled \/ "schema_path" \notin c.keys) => c.schema = {"X", "Z"}}

\* schema.assertValid(tree) does not raise DocumentInvalid
SchemaValid(t) == \A i \in 1..Len(t.b) : t.b[i].text \in config.schema

-----------------------------------------------------------------------------
(* XPath evaluation *)

\* the attributes k of the <b> elements from the i-th on, in document order
RECURSIVE AttrNodes(_, _)
AttrNodes(t, i) ==
    IF i > Len(t.b) THEN << >>
    ELSE (IF t.b[i].attr = NoAttr THEN << >>
          ELSE <<[kind |-> "str", ref |-> i, value |-> t.b[i].attr]>>)
         \o AttrNodes(t, i + 1)

\* root.xpath(xpath): elements are references into the tree, text and attribute
\* results are strings (with the element they came from); no result is a CDATA object
XPath(t, xpath) ==
    IF xpath = "/a/b"
    THEN [i \in 1..Len(t.b) |-> [kind |-> "element", ref |-> i, value |-> "-"]]
    ELSE IF xpath = "/a/b/text()"
    THEN [i \in 1..Len(t.b) |-> [kind |-> "str", ref |-> i, value |-> t.b[i].text]]
    ELSE IF xpath = "/a/b/@k"
    THEN AttrNodes(t, 1)
    ELSE << >>

\* root.xpath(f"{xpath}/..")[0]: the first of the parents of the matched nodes
FirstParent(t, xpath) == XPath(t, xpath)[1].ref

-----------------------------------------------------------------------------
(* Log lines *)

Line(kind, rule, xpath, a, b) ==
    [kind |-> kind, rule |-> rule, xpath |-> xpath, a |-> a, b |-> b]

FileLine(kind) == Line(kind, 0, "-", "-", "-")

\* "Modifying element ...: cv -> nv" / "Modifying text node ...: cv -> nv"
Mutated(rule, xpath, cv, nv) == Line("Mutated", rule, xpath, cv, nv)
\* "No change needed for ...: current value already matches new value 'nv'"
AlreadyCorrect(rule, xpath, nv) == Line("AlreadyCorrect", rule, xpath, nv, nv)
\* "Current value of ... ('found') does not match expected 'cv', skipping modification."
Mismatch(rule, xpath, cv, found) == Line("Mismatch", rule, xpath, cv, found)
\* "Node or attribute for ... not found in the XML structure."
NotFound(rule, xpath) == Line("NotFound", rule, xpath, "-", "-")

DecisionKinds == {"Mutated", "AlreadyCorrect", "Mismatch", "NotFound"}
FinalKinds == {"Saved", "NoChanges", "Skipping"}

-----------------------------------------------------------------------------
(* Initial state: a configuration file and an input directory *)

Contents == Docs \cup {Unparseable}

\* a second, well-formed document beside the one under study
Probe == Doc(<<Elem("X")>>)

\* the input directories: the probe and a file of another kind, or any content
\* and the probe
Dirs ==
    {[f \in {XmlA, TxtC} |-> IF f = XmlA THEN Probe ELSE NotXml]}
    \cup {[f \in {XmlA, XmlB} |-> IF f = XmlA THEN d ELSE Probe] : d \in Contents}

\* a log file that does not exist (one that exists starts with its "Processing" line)
NoLog == << >>

NoCount == [f \in FileNames |-> 0]

\* the loop of process_xml_files starts no task
NoWorkers == << >>

\* the directory scanner is not running
NoTreeScanned == [parent |-> << >>, files |-> << >>]
NoScan ==
    [pc |-> "none", tree |-> NoTreeScanned, total_files |-> 0, total_directories |-> 0,
     directories |-> {}, grand_total_files |-> 0, grand_files_before_fy |-> 0,
     grand_files_after_fy |-> 0,
     row |-> [total_files |-> 0, files_before_fy |-> 0, files_after_fy |-> 0]]

Init ==
    /\ config \in Configs
    /\ in_dir \in Dirs
    \* a dict without a required key never gets to the directory: one directory is enough
    /\ (RequiredKeys \subseteq config.keys) \/ (DOMAIN in_dir = {XmlA, TxtC})
    /\ out_dir_exists = FALSE
    /\ out_xml = [f \in FileNames |-> NoFile]
    /\ logs = [l \in LogNames |-> NoLog]
    /\ pc = "start"
    /\ exc = "none"
    /\ todo = {}
    /\ filename = << >>
    /\ tree = NoTree
    /\ modified = FALSE
    /\ mapping_idx = 0
    /\ nodes = << >>
    /\ node_idx = 0
    /\ at_mapping = [tree |-> NoTree, loglen |-> 0, rule |-> 0]
    /\ written = NoCount
    /\ opened = NoCount
    /\ validated = NoCount
    /\ run = "first"
    /\ workers = NoWorkers
    /\ scan = NoScan

-----------------------------------------------------------------------------
(* Helpers of the actions *)

\* log_file.write(...) on the log of the current file
LogWrite(lines) == logs' = [logs EXCEPT ![LogName(filename)] = @ \o lines]

CurLog == logs[LogName(filename)]

\* an exception no handler catches: the with block closes the log, the run ends
Raise(e) ==
    /\ pc' = "crashed"
    /\ exc' = e

\* where the for loop over the mappings is after mapping i - 1: at mapping i, or
\* past the last one (return tree, modified)
AtMapping(i) == IF i > Len(config.mappings) THEN "validate" ELSE "mappings"

locals == <<tree, modified, mapping_idx, nodes, node_idx, at_mapping>>
files == <<in_dir, out_dir_exists, out_xml, logs, written, opened, validated>>

-----------------------------------------------------------------------------
(* process_xml_files: reading the configuration, the loop over the files *)

\* config['input_directory'], config['output_directory'], config['mappings']:
\* a missing key raises KeyError before anything is created
ConfigKeyError ==
    /\ pc = "start"
    /\ ~(RequiredKeys \subseteq config.keys)
    /\ Raise("KeyError")
    /\ UNCHANGED <<config, files, todo, filename, locals, run, workers, scan>>

\* os.makedirs(output_dir, exist_ok=True); os.listdir(input_dir)
Start ==
    /\ pc = "start"
    /\ RequiredKeys \subseteq config.keys
    /\ out_dir_exists' = TRUE
    /\ todo' = DOMAIN in_dir
    /\ pc' = "loop"
    /\ UNCHANGED <<config, in_dir, out_xml, logs, written, opened, validated, exc,
                   filename, locals, run, workers, scan>>

\* a name that does not end with .xml is passed over
SkipFile ==
    /\ pc = "loop"
    /\ \E f \in todo :
        /\ ~EndsWithXml(f)
        /\ todo' = todo \ {f}
    /\ UNCHANGED <<config, files, pc, exc, filename, locals, run, workers, scan>>

\* open(log_file_path, 'w') and the "Processing file" line; listdir's order is arbitrary
OpenLog ==
    /\ pc = "loop"
    /\ \E f \in todo :
        /\ EndsWithXml(f)
        /\ todo' = todo \ {f}
        /\ filename' = f
        /\ logs' = [logs EXCEPT ![LogName(f)] = <<FileLine("Processing")>>]
        /\ opened' = [opened EXCEPT ![f] = @ + 1]
    /\ pc' = "parse"
    /\ UNCHANGED <<config, in_dir, out_dir_exists, out_xml, written, validated, exc,
                   locals, run, workers, scan>>

\* the loop is over
EndRun ==
    /\ pc = "loop"
    /\ todo = {}
    /\ pc' = "done"
    /\ UNCHANGED <<config, files, exc, todo, filename, locals, run, workers, scan>>

-----------------------------------------------------------------------------
(* parse_and_modify_xml: parsing *)

\* the tree of a well-formed file: XMLParser(recover=True) leaves strip_cdata at its
\* default, so every CDATA section is read as plain text
Parsed(d) == [d EXCEPT !.b = [i \in 1..Len(d.b) |-> [d.b[i] EXCEPT !.cdata = FALSE]]]

\* etree.parse(file_path, parser); root = tree.getroot(); modified = False
ParseOk ==
    /\ pc = "parse"
    /\ in_dir[filename].kind = "xml"
    /\ tree' = Parsed(in_dir[filename])
    /\ modified' = FALSE
    /\ mapping_idx' = 1
    /\ nodes' = << >>
    /\ node_idx' = 0
    /\ at_mapping' = [tree |-> Parsed(in_dir[filename]), loglen |-> Len(CurLog),
                      rule |-> 0]
    /\ pc' = AtMapping(1)
    /\ UNCHANGED <<config, files, exc, todo, filename, run, workers, scan>>

\* a file the recovering parser cannot read: etree.parse raises XMLSyntaxError ...
ParseRaises ==
    /\ pc = "parse"
    /\ in_dir[filename] = Unparseable
    /\ Raise("XMLSyntaxError")
    /\ UNCHANGED <<config, files, todo, filename, locals, run, workers, scan>>

\* ... or it returns a tree whose getroot() is None
ParseNoRoot ==
    /\ pc = "parse"
    /\ in_dir[filename] = Unparseable
    /\ tree' = NoRoot
    /\ modified' = FALSE
    /\ mapping_idx' = 1
    /\ nodes' = << >>
    /\ node_idx' = 0
    /\ at_mapping' = [tree |-> NoRoot, loglen |-> Len(CurLog), rule |-> 0]
    /\ pc' = AtMapping(1)
    /\ UNCHANGED <<config, files, exc, todo, filename, run, workers, scan>>

-----------------------------------------------------------------------------
(* parse_and_modify_xml: the loop over the mappings *)

\* CurMapping when the list is gone through from its end (reversed(mappings))
CurMapping_Reversed == config.mappings[Len(config.mappings) + 1 - mapping_idx]

\* the loop variable of "for mapping in mappings"
CurMapping == config.mappings[mapping_idx]

\* root.xpath on a root that is None raises AttributeError
XPathNoRoot ==
    /\ pc = "mappings"
    /\ tree = NoRoot
    /\ Raise("AttributeError")
    /\ UNCHANGED <<config, files, todo, filename, locals, run, workers, scan>>

\* MappingNotFound without its log line
MappingNotFound_Silent ==
    /\ pc = "mappings"
    /\ tree # NoRoot
    /\ XPath(tree, CurMapping.xpath) = << >>
    /\ nodes' = << >>
    /\ node_idx' = 0
    /\ at_mapping' = [tree |-> tree, loglen |-> Len(CurLog), rule |-> mapping_idx]
    /\ mapping_idx' = mapping_idx + 1
    /\ pc' = AtMapping(mapping_idx + 1)
    /\ UNCHANGED <<config, files, exc, todo, filename, tree, modified, run, workers, scan>>

\* nodes = root.xpath(...) is empty: the "not found" line, then the next mapping
MappingNotFound ==
    /\ pc = "mappings"
    /\ tree # NoRoot
    /\ XPath(tree, CurMapping.xpath) = << >>
    /\ LogWrite(<<NotFound(mapping_idx, CurMapping.xpath)>>)
    /\ nodes' = << >>
    /\ node_idx' = 0
    /\ at_mapping' = [tree |-> tree, loglen |-> Len(CurLog), rule |-> mapping_idx]
    /\ mapping_idx' = mapping_idx + 1
    /\ pc' = AtMapping(mapping_idx + 1)
    /\ UNCHANGED <<config, in_dir, out_dir_exists, out_xml, written, opened, validated,
                   exc, todo, filename, tree, modified, run, workers, scan>>

\* nodes = root.xpath(...) is not empty: the inner loop starts
MappingFound ==
    /\ pc = "mappings"
    /\ tree # NoRoot
    /\ XPath(tree, CurMapping.xpath) # << >>
    /\ nodes' = XPath(tree, CurMapping.xpath)
    /\ node_idx' = 1
    /\ at_mapping' = [tree |-> tree, loglen |-> Len(CurLog), rule |-> mapping_idx]
    /\ pc' = "nodes"
    /\ UNCHANGED <<config, files, exc, todo, filename, tree, modified, mapping_idx,
                   run, workers, scan>>

\* DecideElement with the assignment node.text = new_value left out
DecideElement_KeepsText(t, node, rule, mapping) ==
    LET cv == mapping.current_value
        nv == NewValue(mapping)
        text == t.b[node.ref].text
    IN  IF text = cv
        THEN [tree |-> t, mutated |-> TRUE,
              line |-> Mutated(rule, mapping.xpath, cv, nv)]
        ELSE IF text = nv
        THEN [tree |-> t, mutated |-> FALSE,
              line |-> AlreadyCorrect(rule, mapping.xpath, nv)]
        ELSE [tree |-> t, mutated |-> FALSE,
              line |-> Mismatch(rule, mapping.xpath, cv, text)]

\* DecideElement without the elif: a text equal to new_value is handled as a mismatch
DecideElement_NoElif(t, node, rule, mapping) ==
    LET cv == mapping.current_value
        nv == NewValue(mapping)
        text == t.b[node.ref].text
    IN  IF text = cv
        THEN [tree |-> [t EXCEPT !.b[node.ref].text = nv], mutated |-> TRUE,
              line |-> Mutated(rule, mapping.xpath, cv, nv)]
        ELSE [tree |-> t, mutated |-> FALSE,
              line |-> Mismatch(rule, mapping.xpath, cv, text)]

\* isinstance(node, etree._Element): node.text is read from the tree and written to it
DecideElement(t, node, rule, mapping) ==
    LET cv == mapping.current_value
        nv == NewValue(mapping)
        text == t.b[node.ref].text
    IN  IF text = cv
        THEN [tree |-> [t EXCEPT !.b[node.ref].text = nv], mutated |-> TRUE,
              line |-> Mutated(rule, mapping.xpath, cv, nv)]
        ELSE IF text = nv
        THEN [tree |-> t, mutated |-> FALSE,
              line |-> AlreadyCorrect(rule, mapping.xpath, nv)]
        ELSE [tree |-> t, mutated |-> FALSE,
              line |-> Mismatch(rule, mapping.xpath, cv, text)]

\* DecideText writing new_value also when the string matches neither value
DecideText_WritesOnMismatch(t, node, rule, mapping) ==
    LET cv == mapping.current_value
        nv == NewValue(mapping)
    IN  IF node.value = cv
        THEN [tree |-> [t EXCEPT !.b[FirstParent(t, mapping.xpath)].text = nv],
              mutated |-> TRUE,
              line |-> Mutated(rule, mapping.xpath, cv, nv)]
        ELSE IF node.value = nv
        THEN [tree |-> t, mutated |-> FALSE,
              line |-> AlreadyCorrect(rule, mapping.xpath, nv)]
        ELSE [tree |-> [t EXCEPT !.b[FirstParent(t, mapping.xpath)].text = nv],
              mutated |-> TRUE,
              line |-> Mismatch(rule, mapping.xpath, cv, node.value)]

\* isinstance(node, str): the string is compared, the write goes to the text of
\* root.xpath(f"{xpath}/..")[0]
DecideText(t, node, rule, mapping) ==
    LET cv == mapping.current_value
        nv == NewValue(mapping)
    IN  IF node.value = cv
        THEN [tree |-> [t EXCEPT !.b[FirstParent(t, mapping.xpath)].text = nv],
              mutated |-> TRUE,
              line |-> Mutated(rule, mapping.xpath, cv, nv)]
        ELSE IF node.value = nv
        THEN [tree |-> t, mutated |-> FALSE,
              line |-> AlreadyCorrect(rule, mapping.xpath, nv)]
        ELSE [tree |-> t, mutated |-> FALSE,
              line |-> Mismatch(rule, mapping.xpath, cv, node.value)]

\* handle_cdata and isinstance(node, etree.CDATA): the "Modifying CDATA section" line
\* and node.text = etree.CDATA(new_value), whatever the section held
DecideCData(t, node, rule, mapping) ==
    [tree |-> [t EXCEPT !.b[node.ref].text = NewValue(mapping), !.b[node.ref].cdata = TRUE],
     mutated |-> TRUE,
     line |-> Mutated(rule, mapping.xpath, mapping.current_value, NewValue(mapping))]

\* the if / elif chain on the type of the node
Decide(t, node, rule, mapping) ==
    IF config.handle_cdata /\ node.kind = "cdata"
    THEN DecideCData(t, node, rule, mapping)
    ELSE IF node.kind = "element"
    THEN DecideElement(t, node, rule, mapping)
    ELSE DecideText(t, node, rule, mapping)

\* ProcessNode leaving the inner loop after the first write (a break)
ProcessNode_Break ==
    /\ pc = "nodes"
    /\ LET d == Decide(tree, nodes[node_idx], mapping_idx, CurMapping)
       IN  /\ tree' = d.tree
           /\ modified' = (modified \/ d.mutated)
           /\ LogWrite(<<d.line>>)
           /\ IF node_idx < Len(nodes) /\ ~d.mutated
              THEN /\ node_idx' = node_idx + 1
                   /\ UNCHANGED <<pc, mapping_idx>>
              ELSE /\ node_idx' = 0
                   /\ mapping_idx' = mapping_idx + 1
                   /\ pc' = AtMapping(mapping_idx + 1)
    /\ UNCHANGED <<config, in_dir, out_dir_exists, out_xml, written, opened, validated,
                   exc, todo, filename, nodes, at_mapping, run, workers, scan>>

\* one pass of "for node in nodes"
ProcessNode ==
    /\ pc = "nodes"
    /\ LET d == Decide(tree, nodes[node_idx], mapping_idx, CurMapping)
       IN  /\ tree' = d.tree
           /\ modified' = (modified \/ d.mutated)
           /\ LogWrite(<<d.line>>)
    /\ IF node_idx < Len(nodes)
       THEN /\ node_idx' = node_idx + 1
            /\ UNCHANGED <<pc, mapping_idx>>
       ELSE /\ node_idx' = 0
            /\ mapping_idx' = mapping_idx + 1
            /\ pc' = AtMapping(mapping_idx + 1)
    /\ UNCHANGED <<config, in_dir, out_dir_exists, out_xml, written, opened, validated,
                   exc, todo, filename, nodes, at_mapping, run, workers, scan>>

-----------------------------------------------------------------------------
(* process_xml_files: validation and saving *)

\* SchemaEnabled when the flag is not looked at
SchemaEnabled_Always == TRUE

\* config.get('schema_validation', {}).get('enabled', False)
SchemaEnabled == config.schema_enabled

\* config['schema_validation']['schema_path'] with no such key raises KeyError
SchemaPathKeyError ==
    /\ pc = "validate"
    /\ SchemaEnabled
    /\ "schema_path" \notin config.keys
    /\ Raise("KeyError")
    /\ UNCHANGED <<config, files, todo, filename, locals, run, workers, scan>>

\* validate_xml_with_schema(tree, schema_path, log_file) is called
Validate == validated' = [validated EXCEPT ![filename] = @ + 1]

\* schema.assertValid on a tree without a root raises ValueError
ValidateNoRoot ==
    /\ pc = "validate"
    /\ SchemaEnabled
    /\ "schema_path" \in config.keys
    /\ tree = NoRoot
    /\ Validate
    /\ Raise("ValueError")
    /\ UNCHANGED <<config, in_dir, out_dir_exists, out_xml, logs, written, opened,
                   todo, filename, locals, run, workers, scan>>

\* validate_xml_with_schema returns True
ValidateOk ==
    /\ pc = "validate"
    /\ SchemaEnabled
    /\ "schema_path" \in config.keys
    /\ tree # NoRoot
    /\ SchemaValid(tree)
    /\ Validate
    /\ LogWrite(<<FileLine("Valid")>>)
    /\ pc' = "save"
    /\ UNCHANGED <<config, in_dir, out_dir_exists, out_xml, written, opened, exc,
                   todo, filename, locals, run, workers, scan>>

\* ValidateFail without the continue: the saving is still reached
ValidateFail_NoContinue ==
    /\ pc = "validate"
    /\ SchemaEnabled
    /\ "schema_path" \in config.keys
    /\ tree # NoRoot
    /\ ~SchemaValid(tree)
    /\ Validate
    /\ LogWrite(<<FileLine("ValidationFailed"), FileLine("Skipping")>>)
    /\ pc' = "save"
    /\ UNCHANGED <<config, in_dir, out_dir_exists, out_xml, written, opened, exc,
                   todo, filename, locals, run, workers, scan>>

\* validate_xml_with_schema catches DocumentInvalid and returns False: the
\* "Skipping saving" line, then continue
ValidateFail ==
    /\ pc = "validate"
    /\ SchemaEnabled
    /\ "schema_path" \in config.keys
    /\ tree # NoRoot
    /\ ~SchemaValid(tree)
    /\ Validate
    /\ LogWrite(<<FileLine("ValidationFailed"), FileLine("Skipping")>>)
    /\ pc' = "loop"
    /\ UNCHANGED <<config, in_dir, out_dir_exists, out_xml, written, opened, exc,
                   todo, filename, locals, run, workers, scan>>

\* the statement "if modified:" is reached
AtSave == pc = "save" \/ (pc = "validate" /\ ~SchemaEnabled)

\* SaveModified without the test of modified
SaveModified_Unconditional ==
    /\ AtSave
    /\ out_xml' = [out_xml EXCEPT ![filename] = tree]
    /\ in_dir' = IF config.same_dir THEN [in_dir EXCEPT ![filename] = tree] ELSE in_dir
    /\ written' = [written EXCEPT ![filename] = @ + 1]
    /\ LogWrite(<<FileLine("Saved")>>)
    /\ pc' = "loop"
    /\ UNCHANGED <<config, out_dir_exists, opened, validated, exc, todo, filename,
                   locals, run, workers, scan>>

\* tree.write(output_file_path, ...) and the "Modified XML saved" line; with one
\* directory for input and output, output_file_path is the path of the input file
SaveModified ==
    /\ AtSave
    /\ modified
    /\ out_xml' = [out_xml EXCEPT ![filename] = tree]
    /\ in_dir' = IF config.same_dir THEN [in_dir EXCEPT ![filename] = tree] ELSE in_dir
    /\ written' = [written EXCEPT ![filename] = @ + 1]
    /\ LogWrite(<<FileLine("Saved")>>)
    /\ pc' = "loop"
    /\ UNCHANGED <<config, out_dir_exists, opened, validated, exc, todo, filename,
                   locals, run, workers, scan>>

\* the "No changes made" line
NoChanges ==
    /\ AtSave
    /\ ~modified
    /\ LogWrite(<<FileLine("NoChanges")>>)
    /\ pc' = "loop"
    /\ UNCHANGED <<config, in_dir, out_dir_exists, out_xml, written, opened, validated,
                   exc, todo, filename, locals, run, workers, scan>>

-----------------------------------------------------------------------------
(* The script is run again, with the same configuration, over the documents *)
(* the first run produced: the input directory now holds the saved files.   *)

SecondRun ==
    /\ pc = "done"
    /\ run = "first"
    /\ run' = "second"
    /\ in_dir' = [f \in {g \in FileNames : out_xml[g] # NoFile} |-> out_xml[f]]
    /\ written' = NoCount
    /\ opened' = NoCount
    /\ validated' = NoCount
    /\ pc' = "start"
    /\ filename' = << >>
    /\ tree' = NoTree
    /\ modified' = FALSE
    /\ mapping_idx' = 0
    /\ nodes' = << >>
    /\ node_idx' = 0
    /\ at_mapping' = [tree |-> NoTree, loglen |-> 0, rule |-> 0]
    /\ UNCHANGED <<config, out_dir_exists, out_xml, logs, exc, todo, workers, scan>>

-----------------------------------------------------------------------------

Next ==
    \/ ConfigKeyError
    \/ Start
    \/ SkipFile
    \/ OpenLog
    \/ EndRun
    \/ ParseOk
    \/ ParseRaises
    \/ ParseNoRoot
    \/ XPathNoRoot
    \/ MappingNotFound
    \/ MappingFound
    \/ ProcessNode
    \/ SchemaPathKeyError
    \/ ValidateNoRoot
    \/ ValidateOk
    \/ ValidateFail
    \/ SaveModified
    \/ NoChanges
    \/ SecondRun

Spec == Init /\ [][Next]_vars

TypeOK ==
    /\ config \in Configs
    /\ pc \in {"start", "loop", "parse", "mappings", "nodes", "validate", "save",
               "done", "crashed"}
    /\ exc \in {"none", "KeyError", "XMLSyntaxError", "AttributeError", "ValueError"}
    /\ todo \subseteq FileNames
    /\ modified \in BOOLEAN
    /\ tree \in Docs \cup {NoTree, NoRoot}
    /\ run \in {"first", "second"}

-----------------------------------------------------------------------------
(* Runs over one document whose elements have an attribute or hold their    *)
(* text in a CDATA section, with mappings on elements and attributes, the    *)
(* second of which can take up what the first wrote, and with handle_cdata   *)
(* set or not. The configuration is complete and disables validation.        *)

\* <b k="X">text</b>, <b><![CDATA[text]]></b>, ...
TargetElement == [text : {"X", "Y"}, attr : {NoAttr, "X"}, cdata : BOOLEAN]

TargetDocs == {Doc(b) : b \in UNION {[1..n -> TargetElement] : n \in 1..MaxElems}}

TargetMappings ==
    {[xpath |-> "/a/b", current_value |-> "X", new_value |-> "Y"],
     [xpath |-> "/a/b", current_value |-> "Y", new_value |-> "Z"],
     [xpath |-> "/a/b/@k", current_value |-> "X", new_value |-> "Y"]}

TargetConfigs ==
    [keys : {AllKeys},
     mappings : UNION {[1..n -> TargetMappings] : n \in 1..MaxMappings},
     schema_enabled : {FALSE},
     schema : {{"X", "Z"}},
     handle_cdata : BOOLEAN,
     same_dir : {FALSE}]

\* a run that has not started, with nothing in the output directory
Fresh ==
    /\ out_dir_exists = FALSE
    /\ out_xml = [f \in FileNames |-> NoFile]
    /\ logs = [l \in LogNames |-> NoLog]
    /\ pc = "start"
    /\ exc = "none"
    /\ todo = {}
    /\ filename = << >>
    /\ tree = NoTree
    /\ modified = FALSE
    /\ mapping_idx = 0
    /\ nodes = << >>
    /\ node_idx = 0
    /\ at_mapping = [tree |-> NoTree, loglen |-> 0, rule |-> 0]
    /\ written = NoCount
    /\ opened = NoCount
    /\ validated = NoCount
    /\ run = "first"
    /\ workers = NoWorkers
    /\ scan = NoScan

InitTargets ==
    /\ config \in TargetConfigs
    /\ in_dir \in {[f \in {XmlA} |-> d] : d \in TargetDocs}
    /\ Fresh

NextTargets ==
    \/ Start
    \/ OpenLog
    \/ EndRun
    \/ ParseOk
    \/ MappingNotFound
    \/ MappingFound
    \/ ProcessNode
    \/ SaveModified
    \/ NoChanges

SpecTargets == InitTargets /\ [][NextTargets]_vars

-----------------------------------------------------------------------------
(* Runs in which the schema file or the output file fails: two well-formed  *)
(* documents, a complete configuration.                                      *)

\* open(schema_path, 'rb') finds no file, etree.XML cannot parse what it read, or
\* etree.XMLSchema is given a document that is no schema: validate_xml_with_schema
\* catches DocumentInvalid only
SchemaFileErrors == {"FileNotFoundError", "XMLSyntaxError", "XMLSchemaParseError"}

ValidateRaises ==
    /\ pc = "validate"
    /\ SchemaEnabled
    /\ "schema_path" \in config.keys
    /\ Validate
    /\ \E e \in SchemaFileErrors : Raise(e)
    /\ UNCHANGED <<config, in_dir, out_dir_exists, out_xml, logs, written, opened,
                   todo, filename, locals, run, workers, scan>>

\* tree.write(output_file_path, ...) cannot write the file and raises OSError
SaveRaises ==
    /\ AtSave
    /\ modified
    /\ Raise("OSError")
    /\ UNCHANGED <<config, files, todo, filename, locals, run, workers, scan>>

InitFailures ==
    /\ config \in {c \in Configs : c.keys = AllKeys /\ c.mappings # << >>}
    /\ in_dir \in {[f \in {XmlA, XmlB} |-> IF f = XmlA THEN d ELSE Probe] : d \in Docs}
    /\ Fresh

NextFailures ==
    \/ Start
    \/ OpenLog
    \/ EndRun
    \/ ParseOk
    \/ MappingNotFound
    \/ MappingFound
    \/ ProcessNode
    \/ ValidateOk
    \/ ValidateFail
    \/ ValidateRaises
    \/ SaveModified
    \/ SaveRaises
    \/ NoChanges

SpecFailures == InitFailures /\ [][NextFailures]_vars

-----------------------------------------------------------------------------
(* Runs over directories whose file names hold ".xml" or ".log" before the  *)
(* extension: two well-formed documents, a complete configuration with       *)
(* validation disabled.                                                      *)

NamedDirs ==
    {[f \in names |-> IF f = XmlA THEN Probe ELSE d] :
        names \in {{XmlA, XmlXmlA}, {XmlA, LogXmlA}, {XmlXmlA, LogXmlA}},
        d \in Docs}

InitNames ==
    /\ config \in {c \in Configs :
                    c.keys = AllKeys /\ c.mappings # << >> /\ ~c.schema_enabled}
    /\ in_dir \in NamedDirs
    /\ Fresh

NextNames ==
    \/ Start
    \/ OpenLog
    \/ EndRun
    \/ ParseOk
    \/ MappingNotFound
    \/ MappingFound
    \/ ProcessNode
    \/ SaveModified
    \/ NoChanges

SpecNames == InitNames /\ [][NextNames]_vars

-----------------------------------------------------------------------------
(* Runs of a configuration whose input_directory and output_directory name  *)
(* one directory: two well-formed documents, all keys, mappings not empty.   *)

InitSameDir ==
    /\ \E c \in Configs :
          /\ c.keys = AllKeys
          /\ c.mappings # << >>
          /\ config = [c EXCEPT !.same_dir = TRUE]
    /\ in_dir \in {[f \in {XmlA, XmlB} |-> IF f = XmlA THEN d ELSE Probe] : d \in Docs}
    /\ Fresh

NextSameDir ==
    \/ Start
    \/ OpenLog
    \/ EndRun
    \/ ParseOk
    \/ MappingNotFound
    \/ MappingFound
    \/ ProcessNode
    \/ ValidateOk
    \/ ValidateFail
    \/ SaveModified
    \/ NoChanges

SpecSameDir == InitSameDir /\ [][NextSameDir]_vars

-----------------------------------------------------------------------------
(* The body of the loop of process_xml_files run as one task for each XML   *)
(* file, the tasks interleaved step by step and without locks. A task has    *)
(* its own locals and its own file object for the log: what it writes is     *)
(* buffered and reaches the file when the with block closes it. Well-formed  *)
(* documents, a complete configuration.                                      *)

\* a task that has not started
NewTask ==
    [pc |-> "open", tree |-> NoTree, modified |-> FALSE, mapping_idx |-> 0,
     nodes |-> << >>, node_idx |-> 0, log |-> << >>]

\* a file object at offset 0 is flushed into a file that holds old: the lines written
\* replace the first lines, what lay behind them stays
Flushed(buffer, old) == buffer \o SubSeq(old, Len(buffer) + 1, Len(old))

\* open(log_file_path, 'w') truncates the file; the "Processing file" line
ParOpenLog ==
    /\ \E f \in DOMAIN workers :
        /\ workers[f].pc = "open"
        /\ logs' = [logs EXCEPT ![LogName(f)] = << >>]
        /\ opened' = [opened EXCEPT ![f] = @ + 1]
        /\ workers' = [workers EXCEPT ![f].pc = "parse",
                                      ![f].log = <<FileLine("Processing")>>]
    /\ UNCHANGED <<config, in_dir, out_dir_exists, out_xml, written, validated, pc, exc,
                   todo, filename, locals, run, scan>>

\* etree.parse, getroot, modified = False
ParParse ==
    /\ \E f \in DOMAIN workers :
        /\ workers[f].pc = "parse"
        /\ workers' = [workers EXCEPT ![f].pc = AtMapping(1),
                                      ![f].tree = Parsed(in_dir[f]),
                                      ![f].modified = FALSE,
                                      ![f].mapping_idx = 1]
    /\ UNCHANGED <<config, files, pc, exc, todo, filename, locals, run, scan>>

\* nodes = root.xpath(...): the inner loop starts, or the "not found" line
ParMapping ==
    /\ \E f \in DOMAIN workers :
        LET w == workers[f]
            mapping == config.mappings[w.mapping_idx]
            ns == XPath(w.tree, mapping.xpath)
        IN  /\ w.pc = "mappings"
            /\ workers' =
                IF ns = << >>
                THEN [workers EXCEPT
                        ![f].log = Append(@, NotFound(w.mapping_idx, mapping.xpath)),
                        ![f].mapping_idx = @ + 1,
                        ![f].pc = AtMapping(w.mapping_idx + 1)]
                ELSE [workers EXCEPT ![f].nodes = ns, ![f].node_idx = 1,
                                     ![f].pc = "nodes"]
    /\ UNCHANGED <<config, files, pc, exc, todo, filename, locals, run, scan>>

\* one pass of "for node in nodes"
ParNode ==
    /\ \E f \in DOMAIN workers :
        LET w == workers[f]
            d == Decide(w.tree, w.nodes[w.node_idx], w.mapping_idx,
                        config.mappings[w.mapping_idx])
            last == w.node_idx = Len(w.nodes)
        IN  /\ w.pc = "nodes"
            /\ workers' = [workers EXCEPT
                    ![f].tree = d.tree,
                    ![f].modified = @ \/ d.mutated,
                    ![f].log = Append(@, d.line),
                    ![f].node_idx = IF last THEN 0 ELSE @ + 1,
                    ![f].mapping_idx = IF last THEN @ + 1 ELSE @,
                    ![f].pc = IF last THEN AtMapping(w.mapping_idx + 1) ELSE @]
    /\ UNCHANGED <<config, files, pc, exc, todo, filename, locals, run, scan>>

\* validate_xml_with_schema: True, or False and the "Skipping saving" line
ParValidate ==
    /\ \E f \in DOMAIN workers :
        LET w == workers[f]
        IN  /\ w.pc = "validate"
            /\ SchemaEnabled
            /\ validated' = [validated EXCEPT ![f] = @ + 1]
            /\ workers' =
                IF SchemaValid(w.tree)
                THEN [workers EXCEPT ![f].log = Append(@, FileLine("Valid")),
                                     ![f].pc = "save"]
                ELSE [workers EXCEPT
                        ![f].log = @ \o <<FileLine("ValidationFailed"),
                                          FileLine("Skipping")>>,
                        ![f].pc = "close"]
    /\ UNCHANGED <<config, in_dir, out_dir_exists, out_xml, logs, written, opened, pc,
                   exc, todo, filename, locals, run, scan>>

\* if modified: tree.write and "Modified XML saved", else "No changes made"
ParSave ==
    /\ \E f \in DOMAIN workers :
        LET w == workers[f]
        IN  /\ w.pc = "save" \/ (w.pc = "validate" /\ ~SchemaEnabled)
            /\ IF w.modified
               THEN /\ out_xml' = [out_xml EXCEPT ![f] = w.tree]
                    /\ written' = [written EXCEPT ![f] = @ + 1]
                    /\ workers' = [workers EXCEPT ![f].log = Append(@, FileLine("Saved")),
                                                  ![f].pc = "close"]
               ELSE /\ workers' = [workers EXCEPT
                                    ![f].log = Append(@, FileLine("NoChanges")),
                                    ![f].pc = "close"]
                    /\ UNCHANGED <<out_xml, written>>
    /\ UNCHANGED <<config, in_dir, out_dir_exists, logs, opened, validated, pc, exc,
                   todo, filename, locals, run, scan>>

\* the with block is left: the file object is flushed and closed
ParClose ==
    /\ \E f \in DOMAIN workers :
        /\ workers[f].pc = "close"
        /\ logs' = [logs EXCEPT ![LogName(f)] = Flushed(workers[f].log, @)]
        /\ workers' = [workers EXCEPT ![f].pc = "done"]
    /\ UNCHANGED <<config, in_dir, out_dir_exists, out_xml, written, opened, validated,
                   pc, exc, todo, filename, locals, run, scan>>

\* two documents, under names with different log names or with the same one
TaskDirs ==
    {[f \in {pair[1], pair[2]} |-> IF f = pair[1] THEN Probe ELSE d] :
        pair \in {<<XmlA, XmlB>>, <<XmlA, XmlXmlA>>, <<XmlXmlA, LogXmlA>>},
        d \in Docs}

InitParallel ==
    /\ config \in {c \in Configs : c.keys = AllKeys /\ c.mappings # << >>}
    /\ in_dir \in TaskDirs
    /\ out_dir_exists = TRUE
    /\ out_xml = [f \in FileNames |-> NoFile]
    /\ logs = [l \in LogNames |-> NoLog]
    /\ pc = "tasks"
    /\ exc = "none"
    /\ todo = {}
    /\ filename = << >>
    /\ tree = NoTree
    /\ modified = FALSE
    /\ mapping_idx = 0
    /\ nodes = << >>
    /\ node_idx = 0
    /\ at_mapping = [tree |-> NoTree, loglen |-> 0, rule |-> 0]
    /\ written = NoCount
    /\ opened = NoCount
    /\ validated = NoCount
    /\ run = "first"
    /\ workers = [f \in {g \in DOMAIN in_dir : EndsWithXml(g)} |-> NewTask]
    /\ scan = NoScan

NextParallel ==
    \/ ParOpenLog
    \/ ParParse
    \/ ParMapping
    \/ ParNode
    \/ ParValidate
    \/ ParSave
    \/ ParClose

SpecParallel == InitParallel /\ [][NextParallel]_vars

-----------------------------------------------------------------------------
(* output_scanned_directories_data.py: main counts the files of a directory  *)
(* tree and adds up the statistics of its directories in a "Grand Total"     *)
(* row. A tree is a sequence of directories, the root first: parent[d] is    *)
(* the directory that holds d (0 for the root), files[d] the modification    *)
(* times of the files directly in d, as dates yyyymmdd. Sizes, the workbook   *)
(* and the database are left out; every directory is readable and the tree   *)
(* does not change during the scan.                                          *)

MaxDirs == 3
MaxFiles == 2

fy_cutoff == 20120701

Mtimes == {20120630, fy_cutoff, 20120702}

ScanRoot == 1

FileLists == UNION {[1..n -> Mtimes] : n \in 0..MaxFiles}

\* the trees of n directories
Trees(n) ==
    {[parent |-> p, files |-> fs] :
        p \in {q \in [1..n -> 0..n] :
                  /\ q[ScanRoot] = 0
                  /\ \A d \in 2..n : q[d] \in 1..(d - 1)},
        fs \in [1..n -> FileLists]}

\* the entries of directory d that are directories
SubDirs(t, d) == {c \in 1..Len(t.parent) : t.parent[c] = d}

\* scan_files: the files of the directory, and of its subdirectories recursively
RECURSIVE scan_files(_, _)
RECURSIVE ScanEach(_, _)
ScanEach(t, ds) ==
    IF ds = {} THEN << >>
    ELSE LET c == CHOOSE x \in ds : \A y \in ds : x <= y
         IN  scan_files(t, c) \o ScanEach(t, ds \ {c})

scan_files(t, directory) == t.files[directory] \o ScanEach(t, SubDirs(t, directory))

\* count_directories_and_files: (total_files, total_directories) of the directory
RECURSIVE count_directories_and_files(_, _)
RECURSIVE CountEach(_, _)
CountEach(t, ds) ==
    IF ds = {} THEN [total_files |-> 0, total_directories |-> 0]
    ELSE LET c == CHOOSE x \in ds : TRUE
             sub == count_directories_and_files(t, c)
             rest == CountEach(t, ds \ {c})
         IN  [total_files |-> sub.total_files + rest.total_files,
              total_directories |-> 1 + sub.total_directories + rest.total_directories]

count_directories_and_files(t, directory) ==
    LET subs == CountEach(t, SubDirs(t, directory))
    IN  [total_files |-> Len(t.files[directory]) + subs.total_files,
         total_directories |-> subs.total_directories]

\* the loop of analyze_directory over the entries scan_files yields
RECURSIVE AnalyzeEntries(_, _, _)
AnalyzeEntries(acc, entries, i) ==
    IF i > Len(entries) THEN acc
    ELSE LET before == entries[i] < fy_cutoff
         IN  AnalyzeEntries(
                [total_files |-> acc.total_files + 1,
                 files_before_fy |-> acc.files_before_fy + (IF before THEN 1 ELSE 0),
                 files_after_fy |-> acc.files_after_fy + (IF before THEN 0 ELSE 1)],
                entries, i + 1)

analyze_directory(t, directory) ==
    AnalyzeEntries([total_files |-> 0, files_before_fy |-> 0, files_after_fy |-> 0],
                   scan_files(t, directory), 1)

\* directories = [directory_to_scan] and every directory os.walk lists below it
RECURSIVE Walk(_, _)
Walk(t, root) == {root} \cup UNION {Walk(t, c) : c \in SubDirs(t, root)}

ScanFrame ==
    UNCHANGED <<config, files, pc, exc, todo, filename, locals, run, workers>>

\* main, lines 173-174
CountTotals ==
    /\ scan.pc = "count"
    /\ LET c == count_directories_and_files(scan.tree, ScanRoot)
       IN  scan' = [scan EXCEPT !.total_files = c.total_files,
                                !.total_directories = c.total_directories,
                                !.pc = "walk"]
    /\ ScanFrame

\* main, lines 187-204: the grand totals start at 0, one future for each directory
SubmitDirectories ==
    /\ scan.pc = "walk"
    /\ scan' = [scan EXCEPT !.directories = Walk(scan.tree, ScanRoot),
                            !.grand_total_files = 0,
                            !.grand_files_before_fy = 0,
                            !.grand_files_after_fy = 0,
                            !.pc = "results"]
    /\ ScanFrame

\* one pass of the loop over as_completed, in whatever order the futures complete
FutureResult ==
    /\ scan.pc = "results"
    /\ \E d \in scan.directories :
        LET dir_stats == analyze_directory(scan.tree, d)
        IN  scan' = [scan EXCEPT
                !.grand_total_files = @ + dir_stats.total_files,
                !.grand_files_before_fy = @ + dir_stats.files_before_fy,
                !.grand_files_after_fy = @ + dir_stats.files_after_fy,
                !.directories = @ \ {d}]
    /\ ScanFrame

\* main, lines 240-248: the "Grand Total" row
GrandTotal ==
    /\ scan.pc = "results"
    /\ scan.directories = {}
    /\ scan' = [scan EXCEPT !.row = [total_files |-> scan.grand_total_files,
                                     files_before_fy |-> scan.grand_files_before_fy,
                                     files_after_fy |-> scan.grand_files_after_fy],
                            !.pc = "done"]
    /\ ScanFrame

InitScan ==
    /\ config = [keys |-> {}, mappings |-> << >>, schema_enabled |-> FALSE,
                 schema |-> {}, handle_cdata |-> FALSE, same_dir |-> FALSE]
    /\ in_dir = << >>
    /\ out_dir_exists = FALSE
    /\ out_xml = [f \in FileNames |-> NoFile]
    /\ logs = [l \in LogNames |-> NoLog]
    /\ pc = "scan"
    /\ exc = "none"
    /\ todo = {}
    /\ filename = << >>
    /\ tree = NoTree
    /\ modified = FALSE
    /\ mapping_idx = 0
    /\ nodes = << >>
    /\ node_idx = 0
    /\ at_mapping = [tree |-> NoTree, loglen |-> 0, rule |-> 0]
    /\ written = NoCount
    /\ opened = NoCount
    /\ validated = NoCount
    /\ run = "first"
    /\ workers = NoWorkers
    /\ \E n \in 1..MaxDirs :
        \E t \in Trees(n) : scan = [NoScan EXCEPT !.tree = t, !.pc = "count"]

NextScan ==
    \/ CountTotals
    \/ SubmitDirectories
    \/ FutureResult
    \/ GrandTotal

SpecScan == InitScan /\ [][NextScan]_vars

-----------------------------------------------------------------------------
(* Notions the properties below are stated with *)

\* the node the inner loop is at, the text the comparison reads, the two values
Node == nodes[node_idx]
NodeText == IF Node.kind = "element" THEN tree.b[Node.ref].text ELSE Node.value
CV == CurMapping.current_value
NV == NewValue(CurMapping)

\* parse_and_modify_xml has returned for the current file, which is not finished
Returned == pc \in {"validate", "save"}

\* the lines of kind k in a log
LinesOf(log, k) == {i \in 1..Len(log) : log[i].kind = k}

-----------------------------------------------------------------------------
(* C1: conditional write. When the loop is at an element whose text equals  *)
(* the mapping's current_value X, and new_value Y differs from X, the step   *)
(* sets that element's text to Y, appends the one line Mutated(X, Y) to the  *)
(* log and leaves modified true. With that mapping as the only one, every    *)
(* element that held X holds Y when parse_and_modify_xml has returned.       *)

C1_Step ==
    (pc = "nodes" /\ Node.kind = "element" /\ NodeText = CV /\ CV # NV)
    => /\ tree'.b[Node.ref].text = NV
       /\ modified'
       /\ logs'[LogName(filename)] =
            Append(CurLog, Mutated(mapping_idx, CurMapping.xpath, CV, NV))

C1_AtReturn ==
    (/\ Returned
     /\ tree # NoRoot
     /\ Len(config.mappings) = 1
     /\ config.mappings[1].xpath = "/a/b"
     /\ config.mappings[1].current_value # NewValue(config.mappings[1]))
    => \A i \in 1..Len(tree.b) :
          in_dir[filename].b[i].text = config.mappings[1].current_value
          => /\ tree.b[i].text = NewValue(config.mappings[1])
             /\ modified
             /\ CurLog[1 + i].kind = "Mutated"

C1_ConditionalWrite == [][C1_Step]_vars /\ []C1_AtReturn

C1_Witness ==
    /\ Returned
    /\ Len(config.mappings) = 1
    /\ config.mappings[1] = [xpath |-> "/a/b", current_value |-> "X", new_value |-> "Y"]
    /\ in_dir[filename] = Doc(<<Elem("X")>>)
    /\ tree = Doc(<<Elem("Y")>>)
    /\ modified
    /\ CurLog[2] = Mutated(1, "/a/b", "X", "Y")

-----------------------------------------------------------------------------
(* C2: mismatch safety. When the loop is at a node (element or text) whose   *)
(* value equals neither current_value nor new_value, the step changes no     *)
(* text of the tree, appends the one line Mismatch(expected, found), leaves  *)
(* modified as it was and writes no file; and a file whose log holds no      *)
(* Mutated line is never saved.                                              *)

C2_Step ==
    (pc = "nodes" /\ NodeText # CV /\ NodeText # NV)
    => /\ tree' = tree
       /\ modified' = modified
       /\ logs'[LogName(filename)] =
            Append(CurLog, Mismatch(mapping_idx, CurMapping.xpath, CV, NodeText))
       /\ out_xml' = out_xml
       /\ written' = written

C2_NoOutput ==
    \A f \in XmlNames :
        (opened[f] > 0 /\ LinesOf(logs[LogName(f)], "Mutated") = {})
        => written[f] = 0

C2_MismatchSafety == [][C2_Step]_vars /\ []C2_NoOutput

C2_Witness ==
    /\ pc = "done"
    /\ run = "first"
    /\ Len(logs[LogName(XmlA)]) = 3
    /\ config.mappings = <<[xpath |-> "/a/b", current_value |-> "X", new_value |-> "Y"]>>
    /\ in_dir[XmlA] = Doc(<<Elem("Z")>>)
    /\ logs[LogName(XmlA)][2] = Mismatch(1, "/a/b", "X", "Z")
    /\ written[XmlA] = 0
    /\ out_xml[XmlA] = NoFile

-----------------------------------------------------------------------------
(* C3: idempotence. In a second run over the documents the first run        *)
(* produced, with the same configuration, no text of a tree changes, no     *)
(* Mutated line is logged and modified stays false for every document.      *)

InFile == pc \in {"mappings", "nodes", "validate", "save"}

C3_Idempotence ==
    run = "second"
    => /\ ~modified
       /\ InFile => tree \in {in_dir[filename], NoRoot}
       /\ \A f \in XmlNames :
            opened[f] > 0 => LinesOf(logs[LogName(f)], "Mutated") = {}

-----------------------------------------------------------------------------
(* C4: not-found reporting. When the XPath of the mapping the loop is at     *)
(* returns no node, the step appends the one line NotFound for that mapping, *)
(* leaves the tree and modified as they were, raises nothing and goes on to  *)
(* the next mapping of the same document; no mapping gets a second NotFound  *)
(* line or any other line beside it.                                         *)

C4_Step ==
    (pc = "mappings" /\ tree # NoRoot /\ XPath(tree, CurMapping.xpath) = << >>)
    => /\ logs'[LogName(filename)] =
            Append(CurLog, NotFound(mapping_idx, CurMapping.xpath))
       /\ tree' = tree
       /\ modified' = modified
       /\ exc' = "none"
       /\ filename' = filename
       /\ mapping_idx' = mapping_idx + 1
       /\ pc' = IF mapping_idx < Len(config.mappings) THEN "mappings" ELSE "validate"

C4_Once ==
    \A f \in XmlNames :
        LET log == logs[LogName(f)]
        IN  \A i \in LinesOf(log, "NotFound") :
                {j \in 1..Len(log) : log[j].rule = log[i].rule} = {i}

C4_NotFound == [][C4_Step]_vars /\ []C4_Once

C4_Witness ==
    /\ Returned
    /\ Len(config.mappings) = 2
    /\ in_dir[filename] = Doc(<<Elem("X")>>)
    /\ CurLog[2] = NotFound(1, "/a/c")
    /\ CurLog[3] = Mutated(2, "/a/b", "X", "Y")
    /\ tree = Doc(<<Elem("Y")>>)

-----------------------------------------------------------------------------
(* C5: validation gate. When schema validation is enabled and the tree, as   *)
(* the mappings left it, violates the schema, the step writes no output      *)
(* file, records the failure in the log of the document, raises nothing and  *)
(* returns to the loop with the remaining files still to do; a document      *)
(* whose log records a validation failure has not been saved in that run,    *)
(* and a run that reaches its end has processed every XML file.              *)

C5_Step ==
    (/\ pc = "validate"
     /\ SchemaEnabled
     /\ "schema_path" \in config.keys
     /\ tree # NoRoot
     /\ ~SchemaValid(tree))
    => /\ out_xml' = out_xml
       /\ written' = written
       /\ logs'[LogName(filename)] =
            CurLog \o <<FileLine("ValidationFailed"), FileLine("Skipping")>>
       /\ exc' = "none"
       /\ pc' = "loop"
       /\ todo' = todo

C5_NoOutput ==
    \A f \in XmlNames :
        (opened[f] > 0 /\ LinesOf(logs[LogName(f)], "ValidationFailed") # {})
        => /\ written[f] = 0
           /\ logs[LogName(f)] # NoLog

AllProcessed ==
    \A f \in DOMAIN in_dir :
        EndsWithXml(f)
        => /\ opened[f] = 1
           /\ logs[LogName(f)][Len(logs[LogName(f)])].kind \in FinalKinds

C5_BatchGoesOn == pc = "done" => AllProcessed

C5_ValidationGate == [][C5_Step]_vars /\ []C5_NoOutput /\ []C5_BatchGoesOn

\* a.xml was mutated into a document the schema rejects; b.xml is processed after it
C5_Witness ==
    /\ pc = "done"
    /\ run = "first"
    /\ filename = XmlB
    /\ in_dir[XmlA] = Doc(<<Elem("X")>>)
    /\ LinesOf(logs[LogName(XmlA)], "Mutated") # {}
    /\ LinesOf(logs[LogName(XmlA)], "ValidationFailed") # {}
    /\ out_xml[XmlA] = NoFile
    /\ LinesOf(logs[LogName(XmlB)], "Skipping") # {}

-----------------------------------------------------------------------------
(* C6: multi-match fan-out. When the XPath of a mapping returned n nodes,    *)
(* the k nodes the loop has passed produced exactly k log lines, the j-th    *)
(* line decided by the j-th node's own value alone (Mutated when it equals   *)
(* current_value, else AlreadyCorrect when it equals new_value, else         *)
(* Mismatch); and when the n nodes are elements that all held X, with        *)
(* new_value Y, all n hold Y after the loop and its n lines are Mutated.     *)

\* the mapping last entered, and how many of its nodes the loop has passed
LastMapping == config.mappings[at_mapping.rule]
Passed == IF pc = "nodes" THEN node_idx - 1 ELSE Len(nodes)

\* the value the j-th node had when the mapping was entered
ValueAtEntry(j) ==
    IF nodes[j].kind = "element"
    THEN at_mapping.tree.b[nodes[j].ref].text
    ELSE nodes[j].value

Outcome(v, cv, nv) ==
    IF v = cv THEN "Mutated" ELSE IF v = nv THEN "AlreadyCorrect" ELSE "Mismatch"

C6_FanOut ==
    (InFile /\ at_mapping.rule >= 1 /\ nodes # << >>)
    => /\ {i \in 1..Len(CurLog) : CurLog[i].rule = at_mapping.rule}
            = {at_mapping.loglen + j : j \in 1..Passed}
       /\ \A j \in 1..Passed :
            CurLog[at_mapping.loglen + j].kind =
                Outcome(ValueAtEntry(j), LastMapping.current_value, NewValue(LastMapping))
       /\ (/\ Passed = Len(nodes)
           /\ LastMapping.xpath = "/a/b"
           /\ \A j \in 1..Len(nodes) : ValueAtEntry(j) = LastMapping.current_value)
          => /\ \A j \in 1..Len(nodes) : tree.b[nodes[j].ref].text = NewValue(LastMapping)
             /\ \A j \in 1..Len(nodes) :
                    CurLog[at_mapping.loglen + j] =
                        Mutated(at_mapping.rule, "/a/b", LastMapping.current_value,
                                NewValue(LastMapping))
             /\ Len(CurLog) >= at_mapping.loglen + Len(nodes)

\* two elements holding X, both rewritten to Y, two Mutated lines
C6_Witness ==
    /\ Returned
    /\ config.mappings = <<[xpath |-> "/a/b", current_value |-> "X", new_value |-> "Y"]>>
    /\ in_dir[filename] = Doc(<<Elem("X"), Elem("X")>>)
    /\ tree = Doc(<<Elem("Y"), Elem("Y")>>)
    /\ Cardinality(LinesOf(CurLog, "Mutated")) = 2

-----------------------------------------------------------------------------
(* C7: load-error isolation. When a run has ended, every XML file that      *)
(* cannot be parsed has a log with a LoadError line and no output file, and  *)
(* every other XML file of the directory has been processed to completion.   *)

RunEnded == pc \in {"done", "crashed"}

Completed(f) ==
    /\ opened[f] = 1
    /\ logs[LogName(f)][Len(logs[LogName(f)])].kind \in FinalKinds

C7_LoadErrorIsolation ==
    (RunEnded /\ RequiredKeys \subseteq config.keys)
    => \A f \in DOMAIN in_dir :
          (EndsWithXml(f) /\ in_dir[f] = Unparseable)
          => /\ opened[f] = 1
             /\ LinesOf(logs[LogName(f)], "LoadError") # {}
             /\ out_xml[f] = NoFile
             /\ \A g \in DOMAIN in_dir \ {f} : EndsWithXml(g) => Completed(g)

-----------------------------------------------------------------------------
(* C8: config fail-fast. With a configuration that lacks a required key,    *)
(* has an empty list of mappings, or enables schema validation without a     *)
(* schema_path, the run stops with a configuration error before the output   *)
(* directory, a log file or an output file has been created.                 *)

ConfigInvalid ==
    \/ ~(RequiredKeys \subseteq config.keys)
    \/ config.mappings = << >>
    \/ (config.schema_enabled /\ "schema_path" \notin config.keys)

C8_ConfigFailFast ==
    ConfigInvalid
    => /\ pc \in {"start", "crashed"}
       /\ ~out_dir_exists
       /\ \A l \in LogNames : logs[l] = NoLog
       /\ \A f \in FileNames : out_xml[f] = NoFile

-----------------------------------------------------------------------------
(* C9: audit log. For every document whose processing has ended, the log    *)
(* was opened once in the run, starts with its one "Processing" line, holds  *)
(* the decision lines in the order of the mappings, at least one for every   *)
(* mapping when the document could be loaded and nothing was raised, and     *)
(* holds exactly one failure line when the document failed (it could not be  *)
(* loaded, an exception ended its processing, or validation failed) and      *)
(* none otherwise.                                                           *)

FailureKinds == {"LoadError", "ValidationFailed", "Error"}

Ended(f) == opened[f] > 0 /\ (f # filename \/ pc \in {"loop", "done", "crashed"})

Raised(f) == pc = "crashed" /\ f = filename

Failed(f) ==
    \/ in_dir[f] = Unparseable
    \/ Raised(f)
    \/ LinesOf(logs[LogName(f)], "ValidationFailed") # {}

C9_AuditLog ==
    \A f \in XmlNames :
        Ended(f)
        => LET log == logs[LogName(f)]
               decisions == {i \in 1..Len(log) : log[i].kind \in DecisionKinds}
               failures == {i \in 1..Len(log) : log[i].kind \in FailureKinds}
           IN  /\ opened[f] = 1
               /\ LinesOf(log, "Processing") = {1}
               /\ \A i, j \in decisions : i < j => log[i].rule <= log[j].rule
               /\ (in_dir[f] # Unparseable /\ ~Raised(f))
                  => \A r \in 1..Len(config.mappings) :
                        \E i \in decisions : log[i].rule = r
               /\ Cardinality(failures) = IF Failed(f) THEN 1 ELSE 0

-----------------------------------------------------------------------------
(* C10: write condition. In a run a file is saved at most once, under the   *)
(* name of an XML file of the input directory whose log was opened, and not  *)
(* before the mappings and the validation are through; when the processing   *)
(* of a document has come to its end, it has been saved if and only if       *)
(* modified is true and schema validation is disabled or has passed, and     *)
(* the file saved under its name holds its tree.                             *)

\* the loop has finished the file the variable filename names
Finished == pc \in {"loop", "done"} /\ filename # << >>

C10_WriteCondition ==
    /\ \A f \in FileNames :
        /\ written[f] <= 1
        /\ written[f] = 1
           => /\ f \in DOMAIN in_dir
              /\ EndsWithXml(f)
              /\ opened[f] = 1
              /\ out_xml[f] # NoFile
              /\ LinesOf(logs[LogName(f)], "Saved") # {}
        /\ out_xml[f] # NoFile
           => (written[f] = 1 \/ (run = "second" /\ f \in DOMAIN in_dir))
    /\ (pc = "parse" \/ InFile) => written[filename] = 0
    /\ Finished
       => /\ written[filename] = 1
             <=> (modified /\ (~SchemaEnabled \/ SchemaValid(tree)))
          /\ written[filename] = 1 => out_xml[filename] = tree

\* validation enabled and passed on a mutated tree: saved
C10_Witness ==
    /\ Finished
    /\ run = "first"
    /\ SchemaEnabled
    /\ filename = XmlA
    /\ in_dir[XmlA] = Doc(<<Elem("X"), Elem("Y")>>)
    /\ tree = Doc(<<Elem("Y"), Elem("Y")>>)
    /\ modified
    /\ written[XmlA] = 1
    /\ out_xml[XmlA] = tree
    /\ written[XmlB] = 0

-----------------------------------------------------------------------------
(* C11: expected equals new. When the loop is at a node (element or text)   *)
(* whose value equals the mapping's current_value and new_value is the same  *)
(* value (given, or left out and defaulting to current_value), the step      *)
(* changes no text of the tree, appends the one line AlreadyCorrect and no   *)
(* Mutated line, and leaves modified as it was.                              *)

C11_Step ==
    (pc = "nodes" /\ NodeText = CV /\ CV = NV)
    => /\ tree' = tree
       /\ modified' = modified
       /\ logs'[LogName(filename)][Len(CurLog) + 1].kind = "AlreadyCorrect"
       /\ Len(logs'[LogName(filename)]) = Len(CurLog) + 1

C11_ExpectedEqualsNew == [][C11_Step]_vars

-----------------------------------------------------------------------------
(* C12: target already holds the desired value. When the loop is at a node  *)
(* (element or text) whose value equals new_value and differs from           *)
(* current_value, the step changes no text of the tree, appends the one line *)
(* AlreadyCorrect for new_value, leaves modified as it was and writes no     *)
(* file; a document all of whose lines are AlreadyCorrect is never saved.    *)

C12_Step ==
    (pc = "nodes" /\ NodeText = NV /\ NodeText # CV)
    => /\ tree' = tree
       /\ modified' = modified
       /\ Len(logs'[LogName(filename)]) = Len(CurLog) + 1
       /\ logs'[LogName(filename)][Len(CurLog) + 1] =
            Line("AlreadyCorrect", mapping_idx, CurMapping.xpath, NV, NV)
       /\ out_xml' = out_xml
       /\ written' = written

C12_AtReturn ==
    (/\ Returned
     /\ tree # NoRoot
     /\ config.mappings # << >>
     /\ tree.b # << >>
     /\ \A i \in 1..Len(config.mappings) :
            /\ config.mappings[i].xpath # "/a/c"
            /\ config.mappings[i].current_value # NewValue(config.mappings[i])
     /\ \A i \in 1..Len(tree.b) : in_dir[filename].b[i].text = NewValue(config.mappings[1]))
    => /\ tree = in_dir[filename]
       /\ ~modified
       /\ \A i \in 2..Len(CurLog) : CurLog[i].kind \in {"AlreadyCorrect", "Valid"}

C12_AlreadyHolds == [][C12_Step]_vars /\ []C12_AtReturn

\* an element and a text node that hold Y already, under the mappings X -> Y
C12_Witness ==
    /\ Returned
    /\ config.mappings = <<[xpath |-> "/a/b", current_value |-> "X", new_value |-> "Y"],
                           [xpath |-> "/a/b/text()", current_value |-> "X",
                            new_value |-> "Y"]>>
    /\ in_dir[filename] = Doc(<<Elem("Y")>>)
    /\ tree = Doc(<<Elem("Y")>>)
    /\ ~modified
    /\ Len(CurLog) >= 3
    /\ CurLog[2] = AlreadyCorrect(1, "/a/b", "Y")
    /\ CurLog[3] = AlreadyCorrect(2, "/a/b/text()", "Y")

-----------------------------------------------------------------------------
(* C13: CDATA targets. With handle_cdata set, when the loop is at an        *)
(* element whose text the input file gives as a CDATA section, the step      *)
(* writes only when the text equals current_value, and then the element      *)
(* holds new_value and is still a CDATA section; otherwise the step changes  *)
(* nothing in the tree, leaves modified as it was and appends an             *)
(* AlreadyCorrect or a Mismatch line.                                        *)

\* the input file gives the text of the element the loop is at as a CDATA section
AtCData == pc = "nodes" /\ Node.kind = "element" /\ in_dir[filename].b[Node.ref].cdata

C13_Step ==
    (AtCData /\ config.handle_cdata)
    => IF NodeText = CV
       THEN /\ tree'.b[Node.ref].text = NV
            /\ tree'.b[Node.ref].cdata
       ELSE /\ tree' = tree
            /\ modified' = modified
            /\ logs'[LogName(filename)][Len(CurLog) + 1].kind
                    \in {"AlreadyCorrect", "Mismatch"}

C13_CDataTargets == [][C13_Step]_vars

-----------------------------------------------------------------------------
(* C14: attribute targets. When the loop is at an attribute whose value     *)
(* equals current_value, and new_value differs, the step writes new_value    *)
(* into that attribute and changes nothing else in the tree: the attribute   *)
(* then reads new_value and the text of its element is what it was.          *)

C14_Step ==
    (/\ pc = "nodes"
     /\ CurMapping.xpath = "/a/b/@k"
     /\ Node.value = CV
     /\ CV # NV)
    => tree' = [tree EXCEPT !.b[Node.ref].attr = NV]

C14_AttributeTargets == [][C14_Step]_vars

-----------------------------------------------------------------------------
(* C15: text-node targets. When the loop is at a text node whose value      *)
(* equals current_value, and new_value differs, the step writes new_value    *)
(* to the text of the element that text node belongs to, and the text of no  *)
(* other element changes.                                                    *)

C15_Step ==
    (/\ pc = "nodes"
     /\ CurMapping.xpath = "/a/b/text()"
     /\ Node.value = CV
     /\ CV # NV)
    => tree' = [tree EXCEPT !.b[Node.ref].text = NV]

C15_OwnParent == [][C15_Step]_vars

-----------------------------------------------------------------------------
(* C16: unmodified documents. When the processing of a document on which no *)
(* mapping performed a mutation has come to its end, no file has been saved  *)
(* under its name and its log holds the "No changes made" line, with schema  *)
(* validation disabled, passed or failed (the list of mappings not empty).   *)

C16_UnmodifiedLogged ==
    (Finished /\ ~modified /\ config.mappings # << >>)
    => /\ written[filename] = 0
       /\ LinesOf(CurLog, "NoChanges") # {}

-----------------------------------------------------------------------------
(* C17: per-file failure isolation. When a run in which the validation of a *)
(* document failed on the schema file, or the writing of its output failed,  *)
(* has ended, the log of that document records the failure, and every XML    *)
(* file of the input directory has been processed and has its own log.       *)

C17_FailureIsolation ==
    RunEnded
    => \A f \in DOMAIN in_dir :
          EndsWithXml(f)
          => /\ opened[f] = 1
             /\ logs[LogName(f)] # NoLog
             /\ Raised(f) => LinesOf(logs[LogName(f)], "Error") # {}

-----------------------------------------------------------------------------
(* C18: no partial-file result. When a run has ended, normally or stopped   *)
(* by a failure, every XML file of the input directory is either untouched   *)
(* (the run opened no log and saved no file for it) or fully processed: its  *)
(* log holds an outcome line of every mapping and ends with the "saved",     *)
(* the "no changes" or the "skipping" line.                                  *)

FullyLogged(f) ==
    LET log == logs[LogName(f)]
    IN  /\ log # NoLog
        /\ log[Len(log)].kind \in FinalKinds
        /\ \A r \in 1..Len(config.mappings) :
              \E i \in 1..Len(log) : log[i].kind \in DecisionKinds /\ log[i].rule = r

C18_NoPartialFile ==
    (RunEnded /\ RequiredKeys \subseteq config.keys)
    => \A f \in DOMAIN in_dir :
          EndsWithXml(f)
          => \/ opened[f] = 0 /\ written[f] = 0
             \/ opened[f] = 1 /\ FullyLogged(f)

-----------------------------------------------------------------------------
(* C19: rule ordering. The mappings are applied in the order of the list on  *)
(* the one tree: when the first k mappings, all on /a/b, are through, every  *)
(* element holds the value that results from taking its parsed value through *)
(* mappings 1..k in that order, and the log holds, mapping after mapping and *)
(* element after element, the line that the value left by the mappings       *)
(* before decides. With [X -> Y, Y -> Z] an element holding X ends with Z    *)
(* and the lines Mutated(X, Y), Mutated(Y, Z) in that order.                 *)

\* the value of an element that held v, after mappings 1..k
RECURSIVE After(_, _)
After(v, k) ==
    IF k = 0 THEN v
    ELSE LET u == After(v, k - 1)
         IN  IF u = config.mappings[k].current_value
             THEN NewValue(config.mappings[k])
             ELSE u

\* the line mapping r logs for an element that holds u
LineFor(r, u) ==
    LET cv == config.mappings[r].current_value
        nv == NewValue(config.mappings[r])
    IN  IF u = cv THEN Line("Mutated", r, "/a/b", cv, nv)
        ELSE IF u = nv THEN Line("AlreadyCorrect", r, "/a/b", nv, nv)
        ELSE Line("Mismatch", r, "/a/b", cv, u)

\* the loop is between two mappings, or past the last
BetweenMappings == pc \in {"mappings", "validate", "save"}

C19_RuleOrder ==
    (/\ BetweenMappings
     /\ tree.kind = "xml"
     /\ Len(tree.b) >= 1
     /\ \A r \in 1..(mapping_idx - 1) : config.mappings[r].xpath = "/a/b")
    => LET k == mapping_idx - 1
           n == Len(tree.b)
           parsed == Parsed(in_dir[filename])
       IN  /\ \A j \in 1..n : tree.b[j].text = After(parsed.b[j].text, k)
           /\ Len(CurLog) >= 1 + k * n
           /\ \A r \in 1..k : \A j \in 1..n :
                 CurLog[1 + (r - 1) * n + j] = LineFor(r, After(parsed.b[j].text, r - 1))

\* [X -> Y, Y -> Z] on <a><b>X</b></a>
C19_Witness ==
    /\ pc = "validate"
    /\ config.mappings = <<[xpath |-> "/a/b", current_value |-> "X", new_value |-> "Y"],
                           [xpath |-> "/a/b", current_value |-> "Y", new_value |-> "Z"]>>
    /\ in_dir[filename] = Doc(<<Elem("X")>>)
    /\ tree = Doc(<<Elem("Z")>>)
    /\ CurLog = <<FileLine("Processing"), Mutated(1, "/a/b", "X", "Y"),
                  Mutated(2, "/a/b", "Y", "Z")>>

-----------------------------------------------------------------------------
(* C20: validation ordering. A step that calls the validator for a document *)
(* is taken only with schema_validation.enabled true, when every mapping of  *)
(* the list is through and has its lines in the log, as the first call for   *)
(* that document, and before any file has been saved for it; no document is  *)
(* validated twice in a run, none at all when validation is disabled, and a  *)
(* document saved with validation enabled has been validated before.         *)

C20_Step ==
    (\E f \in FileNames : validated'[f] > validated[f])
    => /\ config.schema_enabled
       /\ pc = "validate"
       /\ mapping_idx = Len(config.mappings) + 1
       /\ \A r \in 1..Len(config.mappings) :
             \E i \in 1..Len(CurLog) : CurLog[i].kind \in DecisionKinds /\ CurLog[i].rule = r
       /\ validated[filename] = 0
       /\ validated' = [validated EXCEPT ![filename] = 1]
       /\ written[filename] = 0
       /\ written' = written
       /\ out_xml' = out_xml

C20_Counts ==
    \A f \in FileNames :
        /\ validated[f] <= 1
        /\ validated[f] = 1 => opened[f] = 1
        /\ ~config.schema_enabled => validated[f] = 0
        /\ (config.schema_enabled /\ written[f] = 1) => validated[f] = 1

C20_ValidationOrder == [][C20_Step]_vars /\ []C20_Counts

\* both files validated once, after their two mappings; a.xml saved after its validation
C20_Witness ==
    /\ pc = "done"
    /\ run = "first"
    /\ config.schema_enabled
    /\ Len(config.mappings) = 2
    /\ validated[XmlA] = 1
    /\ validated[XmlB] = 1
    /\ written[XmlA] = 1
    /\ LinesOf(logs[LogName(XmlA)], "Valid") = {Len(logs[LogName(XmlA)]) - 1}
    /\ LinesOf(logs[LogName(XmlB)], "ValidationFailed") # {}

-----------------------------------------------------------------------------
(* C21: modified flag. Within a document modified is false until the first  *)
(* outcome line is logged, it is never reset once true, and when the loop    *)
(* over the mappings has returned it is true if and only if a Mutated line   *)
(* was logged, which is if and only if a mapping changed a value of the      *)
(* tree to a different value.                                                *)

C21_NeverReset ==
    (/\ InFile
     /\ modified
     /\ filename' = filename
     /\ pc' \in {"mappings", "nodes", "validate", "save"})
    => modified'

\* a Mutated line that records a change to a different value
Changes(log) == {i \in LinesOf(log, "Mutated") : log[i].a # log[i].b}

C21_AtReturn ==
    /\ (InFile /\ Len(CurLog) = 1) => ~modified
    /\ (Returned /\ tree.kind = "xml")
       => /\ modified <=> LinesOf(CurLog, "Mutated") # {}
          /\ modified <=> Changes(CurLog) # {}
          /\ modified <=> tree # Parsed(in_dir[filename])

C21_ModifiedFlag == [][C21_NeverReset]_vars /\ []C21_AtReturn

-----------------------------------------------------------------------------
(* C22: file independence. When a run has ended, every well-formed XML file *)
(* of the input directory has the log, and the output file or none, that     *)
(* the document and the configuration alone determine: what the loop body    *)
(* yields for that document when nothing else is in the directory.           *)

\* the nodes ns[j..] of mapping r decided one after the other, from acc on
RECURSIVE AloneNodes(_, _, _, _)
AloneNodes(acc, ns, j, r) ==
    IF j > Len(ns) THEN acc
    ELSE LET d == Decide(acc.tree, ns[j], r, config.mappings[r])
         IN  AloneNodes([tree |-> d.tree,
                         modified |-> acc.modified \/ d.mutated,
                         log |-> Append(acc.log, d.line)], ns, j + 1, r)

\* the mappings r.. applied one after the other, from acc on
RECURSIVE AloneMappings(_, _)
AloneMappings(acc, r) ==
    IF r > Len(config.mappings) THEN acc
    ELSE LET ns == XPath(acc.tree, config.mappings[r].xpath)
         IN  IF ns = << >>
             THEN AloneMappings([acc EXCEPT !.log =
                                    Append(@, NotFound(r, config.mappings[r].xpath))], r + 1)
             ELSE AloneMappings(AloneNodes(acc, ns, 1, r), r + 1)

\* the log and the output of the document d processed alone
Alone(d) ==
    LET acc == AloneMappings([tree |-> Parsed(d), modified |-> FALSE,
                              log |-> <<FileLine("Processing")>>], 1)
        valid == SchemaValid(acc.tree)
        checked == IF ~config.schema_enabled THEN acc.log
                   ELSE IF valid THEN Append(acc.log, FileLine("Valid"))
                   ELSE acc.log \o <<FileLine("ValidationFailed"), FileLine("Skipping")>>
        saved == acc.modified /\ (config.schema_enabled => valid)
    IN  [log |-> IF config.schema_enabled /\ ~valid THEN checked
                 ELSE IF saved THEN Append(checked, FileLine("Saved"))
                 ELSE Append(checked, FileLine("NoChanges")),
         saved |-> saved,
         out |-> acc.tree]

C22_FileIndependence ==
    (RunEnded /\ AllKeys \subseteq config.keys)
    => \A f \in DOMAIN in_dir :
          (EndsWithXml(f) /\ in_dir[f].kind = "xml")
          => /\ opened[f] = 1
             /\ logs[LogName(f)] = Alone(in_dir[f]).log
             /\ written[f] = IF Alone(in_dir[f]).saved THEN 1 ELSE 0
             /\ written[f] = 1 => out_xml[f] = Alone(in_dir[f]).out

-----------------------------------------------------------------------------
(* C23: one log per input. When a run has reached its end, every XML file   *)
(* of the input directory has its log under its own name with only the       *)
(* extension replaced by the log extension, no other input file has the      *)
(* same log name, and the log holds what processing that file wrote.         *)

\* the name with its last segment, the extension, replaced
WithLogExtension(name) == [name EXCEPT ![Len(name)] = ".log"]

C23_OneLogPerInput ==
    pc = "done"
    => \A f \in DOMAIN in_dir :
          EndsWithXml(f)
          => /\ opened[f] = 1
             /\ LogName(f) = WithLogExtension(f)
             /\ \A g \in DOMAIN in_dir \ {f} : EndsWithXml(g) => LogName(g) # LogName(f)
             /\ logs[LogName(f)] = Alone(in_dir[f]).log

-----------------------------------------------------------------------------
(* C24: batch completeness. When a run with a valid configuration has       *)
(* ended, every entry of the input directory whose name ends with .xml has   *)
(* been processed exactly once and has its log, and every other entry has    *)
(* neither a log opened nor an output file.                                  *)

C24_BatchComplete ==
    (RunEnded /\ ~ConfigInvalid)
    => \A f \in DOMAIN in_dir :
          IF EndsWithXml(f)
          THEN opened[f] = 1 /\ logs[LogName(f)] # NoLog
          ELSE opened[f] = 0 /\ written[f] = 0 /\ out_xml[f] = NoFile

-----------------------------------------------------------------------------
(* C25: input files are never changed. No step of a run changes the content *)
(* of a file of the input directory, whatever the two directories of the     *)
(* configuration are; a step writes XML only to the output file of the       *)
(* document it is at, and the step of a failed validation writes none.       *)

C25_Step ==
    /\ in_dir' = in_dir
    /\ \A f \in FileNames : out_xml'[f] # out_xml[f] => f = filename
    /\ (pc = "validate" /\ SchemaEnabled /\ tree.kind = "xml" /\ ~SchemaValid(tree))
       => out_xml' = out_xml

C25_InputsUnchanged == [][C25_Step]_vars

-----------------------------------------------------------------------------
(* C26: parallel safety. When all the concurrent tasks of a run are done,   *)
(* under whatever interleaving, the log file of every document holds what    *)
(* sequential processing leaves in it (the log of a document with that log   *)
(* name, processed alone), and its output file is the one sequential         *)
(* processing writes, or none.                                               *)

AllTasksDone == workers # NoWorkers /\ \A f \in DOMAIN workers : workers[f].pc = "done"

C26_ParallelSafety ==
    AllTasksDone
    => \A f \in DOMAIN workers :
          /\ logs[LogName(f)] \in
                {Alone(in_dir[g]).log :
                    g \in {h \in DOMAIN workers : LogName(h) = LogName(f)}}
          /\ written[f] = IF Alone(in_dir[f]).saved THEN 1 ELSE 0
          /\ written[f] = 1 => out_xml[f] = Alone(in_dir[f]).out

-----------------------------------------------------------------------------
(* C27: directory-scan grand total. In the "Grand Total" row of main the    *)
(* total-files value equals the file count count_directories_and_files      *)
(* returns for the scanned root, every file counted exactly once, and the    *)
(* before-cutoff plus the after-cutoff file counts equal that total, for     *)
(* every directory tree, nested subdirectories included.                     *)

C27_GrandTotal ==
    scan.pc = "done"
    => /\ scan.row.total_files
            = count_directories_and_files(scan.tree, ScanRoot).total_files
       /\ scan.row.total_files = scan.total_files
       /\ scan.row.files_before_fy + scan.row.files_after_fy
            = count_directories_and_files(scan.tree, ScanRoot).total_files

====
